---- MODULE Spec2Model ----
(***************************************************************************)
(* Model of the media segmentation pipeline of media-slicer:               *)
(* src/src/components/MediaSlicer.jsx (handleFileSelect, handleProcess,    *)
(* the delayed reset, the controls' disabled attributes), with the engine  *)
(* (useFFmpeg) and the filename helpers (fileUtils), whose code is not in  *)
(* src/, modelled from the specification.                                  *)
(*                                                                         *)
(* A name is a sequence of one-character strings.  Every await of          *)
(* handleProcess is a step boundary: an action is the completion of the    *)
(* awaited operation (it returns or throws) followed by the synchronous    *)
(* code up to the next await.                                              *)
(***************************************************************************)
EXTENDS Integers, Sequences, FiniteSets, TLC

\* ------------------------------------------------------------------ bounds
\* Runs that may be started in one behaviour.
MaxRuns == 2
\* Output entries one engine command may produce.
MaxSegments == 2
\* Operations (engine, file read, archive, delivery) that may fail in one behaviour.
MaxFaults == 2

\* --------------------------------------------------------------- constants
\* 500 * 1024 * 1024, MediaSlicer.jsx line 40.
maxSize == 524288000
\* useState(30) and the fallback of the segment-length onChange.
DefaultSegmentLength == 30

RunIds == 1..MaxRuns

\* ----------------------------------------------------------------- strings
Digits == <<"0", "1", "2", "3", "4", "5", "6", "7", "8", "9">>
Lower == <<"a", "b", "c", "d", "e", "f", "g", "h", "i", "j", "k", "l", "m",
           "n", "o", "p", "q", "r", "s", "t", "u", "v", "w", "x", "y", "z">>
Upper == <<"A", "B", "C", "D", "E", "F", "G", "H", "I", "J", "K", "L", "M",
           "N", "O", "P", "Q", "R", "S", "T", "U", "V", "W", "X", "Y", "Z">>

Range(s) == {s[i] : i \in DOMAIN s}

IndexOf(s, c) == CHOOSE i \in DOMAIN s : s[i] = c

DigitChars == Range(Digits)

LowerChars == Range(Lower)

UpperChars == Range(Upper)

\* The value of a digit character.
DigitValue == [c \in DigitChars |-> IndexOf(Digits, c) - 1]

\* String.prototype.startsWith / endsWith
startsWith(s, p) == Len(s) >= Len(p) /\ SubSeq(s, 1, Len(p)) = p

endsWith(s, p) == Len(s) >= Len(p) /\ SubSeq(s, Len(s) - Len(p) + 1, Len(s)) = p

\* String.prototype.lastIndexOf('.'), 1-based; 0 when there is no dot (JS: -1).
lastIndexOfDot(s) ==
  IF \E i \in DOMAIN s : s[i] = "."
  THEN CHOOSE i \in DOMAIN s : s[i] = "." /\ \A j \in DOMAIN s : s[j] = "." => j <= i
  ELSE 0

\* String(n).padStart(2, '0') for n >= 0.
RECURSIVE decimal(_)
decimal(n) == IF n < 10 THEN <<Digits[n + 1]>> ELSE decimal(n \div 10) \o <<Digits[(n % 10) + 1]>>

padStart2(n) == IF Len(decimal(n)) >= 2 THEN decimal(n) ELSE <<"0">> \o decimal(n)

\* The collation key of a character for localeCompare: punctuation, then digits,
\* then letters; upper and lower case share the primary key.
PrimaryOrder == <<"_", "-", ".">> \o Digits \o Lower

LowerOf == [c \in UpperChars |-> Lower[IndexOf(Upper, c)]]

toLower(c) == IF c \in UpperChars THEN LowerOf[c] ELSE c

PrimaryKey ==
  [c \in Range(PrimaryOrder) \cup UpperChars |-> IndexOf(PrimaryOrder, toLower(c))]

\* The characters that have a key.
KeyedChars == DOMAIN PrimaryKey

primary(c) == IF c \in KeyedChars THEN PrimaryKey[c] ELSE 0

\* Tertiary key: lower case sorts before upper case.
tertiary(c) == IF c \in UpperChars THEN 1 ELSE 0

\* Lexicographic order of two key sequences: they agree up to a position where
\* a has ended or holds the smaller key.
lexLess(a, b) ==
  \E i \in 1..Len(b) :
    /\ i - 1 <= Len(a)
    /\ SubSeq(a, 1, i - 1) = SubSeq(b, 1, i - 1)
    /\ i > Len(a) \/ a[i] < b[i]

\* The keys of the characters of a name, as a sequence.
primaryKeys(s) == SubSeq([i \in DOMAIN s |-> primary(s[i])], 1, Len(s))

tertiaryKeys(s) == SubSeq([i \in DOMAIN s |-> tertiary(s[i])], 1, Len(s))

\* A name with its collation keys.
keyed(s) == <<s, primaryKeys(s), tertiaryKeys(s)>>

\* The order of two keyed names: the primary keys decide, the tertiary keys
\* break a tie.
keyedLess(p, q) == IF p[2] = q[2] THEN lexLess(p[3], q[3]) ELSE lexLess(p[2], q[2])

\* a.localeCompare(b) < 0
localeLess(a, b) == \E p \in {keyed(a)}, q \in {keyed(b)} : keyedLess(p, q)

\* Each name of the keyed names K paired with its position in the sorted order:
\* one more than the number of names that precede it.
positions(K) == {<<Cardinality({q \in K : keyedLess(q, p)}) + 1, p[1]>> : p \in K}

\* The sequence that holds each name at its position.
placed(P) == [i \in 1..Cardinality(P) |-> (CHOOSE p \in P : p[1] = i)[2]]

\* A sort into descending order.
sortNames_Descending(S) ==
  CHOOSE s \in {placed({<<Cardinality(P) + 1 - p[1], p[2]>> : p \in P}) :
                  P \in {positions(K) : K \in {{keyed(x) : x \in S}}}} : TRUE

\* [...names].sort((a, b) => a.localeCompare(b)) of a set of distinct names:
\* the i-th entry is the name that exactly i - 1 names precede.
sortNames(S) ==
  CHOOSE s \in {placed(P) : P \in {positions(K) : K \in {{keyed(x) : x \in S}}}} : TRUE

\* ------------------------------------------------------- fileUtils helpers
\* The characters a sanitized name may hold: [A-Za-z0-9._-].
SafeChars == LowerChars \cup UpperChars \cup DigitChars \cup {".", "_", "-"}

\* The fallback name of an input whose every character was stripped.
FallbackName == <<"f", "i", "l", "e">>

\* sanitizeFilename(name): spaces become "_", every other character outside the
\* safe set is stripped, an empty result becomes the fallback name.
sanitizeFilename(name) ==
  LET spaced == [i \in DOMAIN name |-> IF name[i] = " " THEN "_" ELSE name[i]]
      kept == SelectSeq(spaced, LAMBDA c : c \in SafeChars)
  IN IF kept = <<>> THEN FallbackName ELSE kept

\* getFileExtension(name): what follows the last dot, empty when there is none.
getFileExtension(name) ==
  IF lastIndexOfDot(name) = 0 THEN <<>>
  ELSE SubSeq(name, lastIndexOfDot(name) + 1, Len(name))

\* The extension allow-list of the format classifier.
SupportedExtensions ==
  { <<"m", "p", "4">>, <<"m", "o", "v">>, <<"m", "p", "3">>, <<"w", "a", "v">>,
    <<"a", "v", "i">>, <<"m", "k", "v">>, <<"w", "e", "b", "m">>, <<"o", "g", "g">>,
    <<"m", "4", "a">>, <<"f", "l", "a", "c">> }

\* isSupportedMediaFile(file): an audio/ or video/ MIME type, or an extension of
\* the allow-list (compared in lower case).  A MIME type is <<major, minor>>.
isSupportedMediaFile(f) ==
  \/ f.type[1] \in {"audio", "video"}
  \/ LET e == getFileExtension(f.name)
     IN [i \in DOMAIN e |-> toLower(e[i])] \in SupportedExtensions

\* ------------------------------------------------------------------- inputs
NoFile == [name |-> <<>>, type |-> <<"", "">>, size |-> -1]

\* "a b.mov": a name the sanitizer changes.
Clip ==
  [name |-> <<"a", " ", "b", ".", "m", "o", "v">>,
   type |-> <<"video", "quicktime">>, size |-> 1000]

\* "out_a.mp4", of exactly the ceiling size.
OutA ==
  [name |-> <<"o", "u", "t", "_", "a", ".", "m", "p", "4">>,
   type |-> <<"video", "mp4">>, size |-> maxSize]

\* "n.txt"
Notes ==
  [name |-> <<"n", ".", "t", "x", "t">>,
   type |-> <<"text", "plain">>, size |-> 10]

\* "b.mp3", 600 MB.
Big ==
  [name |-> <<"b", ".", "m", "p", "3">>,
   type |-> <<"audio", "mpeg">>, size |-> 629145600]

\* The files the user may pick in the file dialog.
Files == {Clip, OutA, Notes, Big}

\* "My Clip (2024).mov", the input of end-to-end scenario A.
MyClip ==
  [name |-> <<"M", "y", " ", "C", "l", "i", "p", " ", "(", "2", "0", "2", "4", ")",
              ".", "m", "o", "v">>,
   type |-> <<"video", "quicktime">>, size |-> 1000]

\* Every file of the model.
AllFiles == Files \cup {MyClip}

\* The texts the user may leave in the segment-length input.
SegmentTexts == { <<>>, <<"0">>, <<"-", "5">> }

\* parseInt(text): an optional sign and the leading digits; NaN when there are none.
RECURSIVE digitsValue(_, _)
digitsValue(s, acc) ==
  IF s = <<>> \/ Head(s) \notin DigitChars THEN acc
  ELSE digitsValue(Tail(s), 10 * acc + DigitValue[Head(s)])

parseInt(s) ==
  LET neg == s # <<>> /\ Head(s) = "-"
      body == IF s # <<>> /\ Head(s) \in {"-", "+"} THEN Tail(s) ELSE s
  IN IF body = <<>> \/ Head(body) \notin DigitChars THEN [nan |-> TRUE, value |-> 0]
     ELSE [nan |-> FALSE, value |-> IF neg THEN 0 - digitsValue(body, 0) ELSE digitsValue(body, 0)]

\* parseInt(e.target.value) || 30: NaN and 0 are falsy.
segmentLengthOf(text) ==
  IF parseInt(text).nan \/ parseInt(text).value = 0 THEN DefaultSegmentLength
  ELSE parseInt(text).value

\* The values the segment-length input can put into the state.
SegmentLengths == {segmentLengthOf(t) : t \in SegmentTexts}

\* Number.prototype.toString
toString(n) == IF n < 0 THEN <<"-">> \o decimal(0 - n) ELSE decimal(n)

\* ------------------------------------------------------------ messages
NoError == <<>>

ErrUnsupported == <<"Unsupported file format. Please select a media file (mp4, mp3, mov, wav, etc.)">>

ErrTooLarge == <<"File size too large. Maximum size is 500MB for browser processing.">>

ErrSelectAndWait == <<"Please select a file and wait for FFmpeg to load.">>

ErrNotInitialized == <<"FFmpeg is not initialized. Please wait for it to load.">>

ErrSegmentLength == <<"Segment length must be greater than 0.">>

ValidationErrors == {ErrSelectAndWait, ErrNotInitialized, ErrSegmentLength}

\* The message of the error an engine, file or archive operation throws.
opError(op) == <<op>>

\* new Error(`FFmpeg processing failed: ${execErrorMessage}`)
execError(msg) == <<"FFmpeg processing failed: ">> \o msg

ErrNoOutput == <<"No output files were created. The file might be too short or there was an error.">>

\* setError(`Error processing file: ${errorMessage}`)
processingError(msg) == <<"Error processing file: ">> \o msg

Status(text, n) == [text |-> text, n |-> n]

NoStatus == Status("", 0)

StatusSelected == Status("File selected. Ready to process.", 0)

StatusLoading == Status("Loading file into FFmpeg...", 0)

StatusSlicing == Status("Slicing media file...", 0)

StatusCollecting == Status("Collecting segments...", 0)

StatusCreating(n) == Status("Creating ZIP file with ${n} segments...", n)

StatusFinalizing == Status("Finalizing ZIP file...", 0)

StatusSuccess(n) == Status("Success! Created ${n} segments. Download started.", n)

\* A progress value is a fraction <<numerator, denominator>>.
Pct(n) == <<n, 1>>

\* A step of 30 per unit.
archivingProgress_Steep(i, n) == <<70 * n + (i + 1) * 30, n>>

\* 70 + (i + 1) / outputFiles.length * 20, after the entry at 0-based index i.
archivingProgress(i, n) == <<70 * n + (i + 1) * 20, n>>

\* ------------------------------------------------------------ run naming
Mp4 == <<"m", "p", "4">>

OutPrefix == <<"o", "u", "t", "_">>

Root == <<"/">>

\* sanitized.substring(0, sanitized.lastIndexOf('.')) || sanitized
baseNameFrom(sanitized) ==
  IF lastIndexOfDot(sanitized) <= 1 THEN sanitized
  ELSE SubSeq(sanitized, 1, lastIndexOfDot(sanitized) - 1)

\* ext || 'mp4'
outputExtFrom(sanitized) ==
  IF getFileExtension(sanitized) = <<>> THEN Mp4 ELSE getFileExtension(sanitized)

\* The names handleProcess derives from each file, computed once.
Derived ==
  [f \in AllFiles |->
     [sanitized |-> sanitizeFilename(f.name),
      baseName |-> baseNameFrom(sanitizeFilename(f.name)),
      outputExt |-> outputExtFrom(sanitizeFilename(f.name))]]

sanitizedOf(f) == Derived[f].sanitized

baseNameOf(f) == Derived[f].baseName

outputExtOf(f) == Derived[f].outputExt

\* f.name.startsWith('out_') && f.name.endsWith(`.${outputExt}`)
isOutputFile(name, outputExt) ==
  startsWith(name, OutPrefix) /\ endsWith(name, <<".">> \o outputExt)

\* Ordinals that start at 0.
zipFileName_FromZero(baseName, i, outputExt) ==
  baseName \o <<"_", "s", "e", "g", "m", "e", "n", "t", "_">> \o padStart2(i)
           \o <<".">> \o outputExt

\* `${baseName}_segment_${String(i + 1).padStart(2, '0')}.${outputExt}`, i from 0.
zipFileName(baseName, i, outputExt) ==
  baseName \o <<"_", "s", "e", "g", "m", "e", "n", "t", "_">> \o padStart2(i + 1)
           \o <<".">> \o outputExt

\* `${baseName}_segments.zip`
downloadName(baseName) ==
  baseName \o <<"_", "s", "e", "g", "m", "e", "n", "t", "s", ".", "z", "i", "p">>

\* A cleanup that removes the input alone.
cleanupMatches_InputOnly(name, sanitized) == name = sanitized

\* f.name === sanitized || f.name.startsWith('out_')
cleanupMatches(name, sanitized) == name = sanitized \/ startsWith(name, OutPrefix)

\* '-segment_format': outputExt === 'mp3' || outputExt === 'wav' ? outputExt : 'mp4'
segmentFormat(outputExt) ==
  IF outputExt = <<"m", "p", "3">> \/ outputExt = <<"w", "a", "v">> THEN outputExt ELSE Mp4

\* The argument vector of the one segmentation command.
execArgv(f, segLen) ==
  [input |-> sanitizedOf(f), segment_time |-> toString(segLen),
   segment_format |-> segmentFormat(outputExtOf(f)),
   pattern |-> [prefix |-> OutPrefix, ext |-> outputExtOf(f)]]

\* ----------------------------------------------------------------- engine
\* The virtual filesystem is a function from the resident names to their bytes.
EmptyFs == <<>>

fsWrite(fsys, name, data) ==
  [n \in (DOMAIN fsys) \cup {name} |-> IF n = name THEN data ELSE fsys[n]]

fsDelete(fsys, name) == [n \in (DOMAIN fsys) \ {name} |-> fsys[n]]

\* The bytes of the input a run writes, and of the segment an engine command of
\* run r writes under counter c.
inputBytes(r) == [kind |-> "input", run |-> r, n |-> 0]

segmentBytes(r, c) == [kind |-> "segment", run |-> r, n |-> c]

\* out_%02d.<ext> for counter c.
engineOutputName(c, ext) == OutPrefix \o padStart2(c) \o <<".">> \o ext

\* The counter values of one command: count entries numbered from first.
Counters(first, count) == first .. (first + count - 1)

\* The filesystem after a command of run r wrote its outputs for counters cs.
execWrites(fsys, r, cs, ext) ==
  LET names == {engineOutputName(c, ext) : c \in cs}
  IN [n \in (DOMAIN fsys) \cup names |->
        IF n \in names
        THEN segmentBytes(r, CHOOSE c \in cs : engineOutputName(c, ext) = n)
        ELSE fsys[n]]

NULL == "null"

Engine == "ffmpeg"

\* ------------------------------------------------------------------ state
VARIABLES
  file,            \* useState(null): the selected file
  segmentLength,   \* useState(30)
  isProcessing,    \* useState(false)
  progress,        \* useState(0)
  status,          \* useState('')
  error,           \* useState('')
  inputValue,      \* the file the hidden <input type="file"> holds
  isLoaded,        \* useFFmpeg().isLoaded
  ffmpeg,          \* useFFmpeg().ffmpeg
  fs,              \* the engine's virtual filesystem
  timers,          \* pending setTimeout(reset, 3000) callbacks
  runs,            \* the invocations of handleProcess that passed the preconditions
  started,         \* how many there were
  faults           \* how many operations have failed so far

vars == <<file, segmentLength, isProcessing, progress, status, error, inputValue,
          isLoaded, ffmpeg, fs, timers, runs, started, faults>>

\* The closure and locals of one invocation of handleProcess, with what is
\* observed of it: the engine calls it issued (ops), whether the filesystem was
\* empty when it started, how many entries its command wrote, whether an
\* operation of its failure cleanup threw, the arguments of its setProgress
\* calls in order (sets), how many engine calls it had issued when its catch
\* block was entered (caughtAt).
NoRun ==
  [pc |-> "idle", file |-> NoFile, segmentLength |-> 0,
   outputFiles |-> <<>>, i |-> 0, zip |-> <<>>, zipBlob |-> FALSE,
   delivered |-> 0, d |-> 0,
   thrown |-> NoError, cleanupFiles |-> <<>>, k |-> 0,
   ops |-> <<>>, cleanAtStart |-> FALSE, produced |-> 0, cleanupThrew |-> FALSE,
   sets |-> <<>>, caughtAt |-> 0]

Init ==
  /\ file = NoFile
  /\ segmentLength = DefaultSegmentLength
  /\ isProcessing = FALSE
  /\ progress = Pct(0)
  /\ status = NoStatus
  /\ error = NoError
  /\ inputValue = NoFile
  /\ isLoaded = FALSE
  /\ ffmpeg = NULL
  /\ fs = EmptyFs
  /\ timers = 0
  /\ runs = [r \in RunIds |-> NoRun]
  /\ started = 0
  /\ faults = 0

\* An awaited operation throws although it could have succeeded.
fault == faults < MaxFaults /\ faults' = faults + 1

\* The locals of an invocation that has returned are garbage: they are kept
\* until the next event of the page and released by it.
Released == [NoRun EXCEPT !.pc = "done"]

release(rs) == [r \in RunIds |-> IF rs[r].pc = "done" THEN Released ELSE rs[r]]

\* An engine call a run issues is appended to the run's log when it is issued.
\* The k-th readFile reads outputFiles[k]; the success path's k-th deleteFile
\* removes deleteTarget, the cleanup's k-th deleteFile removes cleanupFiles[k].
issue(rec, op) == [rec EXCEPT !.ops = Append(@, op)]

\* setProgress(v) called by a run.
setProgress(rec, v) == [rec EXCEPT !.sets = Append(@, v)]

\* ------------------------------------------------------------ useFFmpeg
\* loadFFmpeg() resolves: the engine is initialized and reported loaded.
LoadFFmpeg ==
  /\ ~isLoaded
  /\ isLoaded' = TRUE
  /\ ffmpeg' = Engine
  /\ UNCHANGED <<file, segmentLength, isProcessing, progress, status, error,
                 inputValue, fs, timers, runs, started, faults>>

\* ---------------------------------------------------------- the controls
\* <input type="file" disabled={isProcessing}>, rendered once isLoaded.
fileInputDisabled == isProcessing \/ ~isLoaded

\* <Input id="segment-length" disabled={isProcessing}>, rendered once isLoaded.
segmentInputDisabled == isProcessing \/ ~isLoaded

\* A button that stays enabled while a run is in progress.
buttonDisabled_NotWhileProcessing == file = NoFile \/ ~isLoaded

\* <Button disabled={!file || isProcessing || !isLoaded}>, rendered once isLoaded.
buttonDisabled == file = NoFile \/ isProcessing \/ ~isLoaded

\* A check of the format alone.
selectError_NoSizeCheck(f) == IF ~isSupportedMediaFile(f) THEN ErrUnsupported ELSE NoError

\* The file check of handleFileSelect: the error it reports, NoError when accepted.
selectError(f) ==
  IF ~isSupportedMediaFile(f) THEN ErrUnsupported
  ELSE IF f.size > maxSize THEN ErrTooLarge
  ELSE NoError

\* The outcome of the check for each file of the dialog, computed once.
SelectErrorOf == [f \in AllFiles |-> selectError(f)]

\* A handler that drops the selection when it rejects a file.
handleFileSelect_ClearsOnReject(f) ==
  /\ inputValue' = f
  /\ IF f = NoFile
     THEN UNCHANGED <<file, status, error>>
     ELSE /\ error' = SelectErrorOf[f]
          /\ IF SelectErrorOf[f] = NoError
             THEN file' = f /\ status' = StatusSelected
             ELSE file' = NoFile /\ status' = NoStatus
  /\ runs' = release(runs)
  /\ UNCHANGED <<segmentLength, isProcessing, progress, isLoaded, ffmpeg, fs,
                 timers, started, faults>>

\* handleFileSelect(e) with e.target.files[0] = f (NoFile: the dialog was emptied).
handleFileSelect(f) ==
  /\ inputValue' = f
  /\ IF f = NoFile
     THEN UNCHANGED <<file, status, error>>
     ELSE /\ error' = SelectErrorOf[f]
          /\ IF SelectErrorOf[f] = NoError
             THEN file' = f /\ status' = StatusSelected
             ELSE UNCHANGED <<file, status>>
  /\ runs' = release(runs)
  /\ UNCHANGED <<segmentLength, isProcessing, progress, isLoaded, ffmpeg, fs,
                 timers, started, faults>>

\* The change event of the file input: it fires when the input's file changes.
SelectFile ==
  /\ ~fileInputDisabled
  /\ \E f \in Files : f # inputValue /\ handleFileSelect(f)

\* onChange of the segment-length input, the input's text giving the value v.
segmentLengthChange(v) ==
  /\ ~segmentInputDisabled
  /\ segmentLength' = v
  /\ runs' = release(runs)
  /\ UNCHANGED <<file, isProcessing, progress, status, error, inputValue,
                 isLoaded, ffmpeg, fs, timers, started, faults>>

\* The user edits the segment-length input.
SetSegmentLength == \E v \in SegmentLengths : segmentLengthChange(v)

\* A reset that clears the error as well.
ResetTimer_ClearsError ==
  /\ timers > 0
  /\ timers' = timers - 1
  /\ file' = NoFile
  /\ progress' = Pct(0)
  /\ status' = NoStatus
  /\ error' = NoError
  /\ inputValue' = NoFile
  /\ runs' = release(runs)
  /\ UNCHANGED <<segmentLength, isProcessing, isLoaded, ffmpeg, fs, started, faults>>

\* The reset scheduled on success fires.
ResetTimer ==
  /\ timers > 0
  /\ timers' = timers - 1
  /\ file' = NoFile
  /\ progress' = Pct(0)
  /\ status' = NoStatus
  /\ inputValue' = NoFile
  /\ runs' = release(runs)
  /\ UNCHANGED <<segmentLength, isProcessing, error, isLoaded, ffmpeg, fs,
                 started, faults>>

\* --------------------------------------------------------- handleProcess
\* The checks without the one on the segment length.
preconditionError_NoLengthCheck ==
  IF file = NoFile \/ ~isLoaded THEN ErrSelectAndWait
  ELSE IF ffmpeg = NULL THEN ErrNotInitialized
  ELSE NoError

\* The precondition checks of handleProcess: the error reported, NoError when
\* they pass.
preconditionError ==
  IF file = NoFile \/ ~isLoaded THEN ErrSelectAndWait
  ELSE IF ffmpeg = NULL THEN ErrNotInitialized
  ELSE IF segmentLength <= 0 THEN ErrSegmentLength
  ELSE NoError

\* handleProcess() up to its first await (file.arrayBuffer()).
handleProcess ==
  IF preconditionError # NoError
  THEN /\ error' = preconditionError
       /\ runs' = release(runs)
       /\ UNCHANGED <<file, segmentLength, isProcessing, progress, status,
                      inputValue, isLoaded, ffmpeg, fs, timers, started, faults>>
  ELSE /\ started < MaxRuns
       /\ started' = started + 1
       /\ isProcessing' = TRUE
       /\ error' = NoError
       /\ progress' = Pct(0)
       /\ status' = StatusLoading
       /\ runs' = [release(runs) EXCEPT ![started + 1] =
                     [NoRun EXCEPT !.pc = "arrayBuffer", !.file = file,
                                   !.segmentLength = segmentLength,
                                   !.cleanAtStart = (DOMAIN fs = {}),
                                   !.sets = <<Pct(0)>>]]
       /\ UNCHANGED <<file, segmentLength, inputValue, isLoaded, ffmpeg, fs, timers,
                      faults>>

\* A click on the run button.
ClickProcess == ~buttonDisabled /\ handleProcess

\* A run that returns without its finally block.
finally_Skipped(r, rec) ==
  /\ isProcessing' = isProcessing
  /\ runs' = [runs EXCEPT ![r] = [rec EXCEPT !.pc = "done"]]

\* finally { setIsProcessing(false) }
finally(r, rec) ==
  /\ isProcessing' = FALSE
  /\ runs' = [runs EXCEPT ![r] = [rec EXCEPT !.pc = "done"]]

\* catch (err): the error is shown, the status cleared, and the cleanup starts
\* with its listDir('/').
catch(r, rec, msg) ==
  /\ error' = processingError(msg)
  /\ status' = NoStatus
  /\ IF ffmpeg # NULL
     THEN /\ runs' = [runs EXCEPT ![r] =
                        issue([rec EXCEPT !.pc = "cleanupList", !.thrown = msg,
                                          !.caughtAt = Len(rec.ops)],
                              "listDir")]
          /\ UNCHANGED isProcessing
     ELSE finally(r, [rec EXCEPT !.thrown = msg, !.caughtAt = Len(rec.ops)])
  /\ UNCHANGED <<file, segmentLength, progress, inputValue, isLoaded, ffmpeg,
                 timers, started>>

\* The command is issued without the input having been written.
ArrayBufferDone_NoWrite(r) ==
  /\ runs[r].pc = "arrayBuffer"
  /\ runs' = [runs EXCEPT ![r] = issue([@ EXCEPT !.pc = "exec"], "exec")]
  /\ UNCHANGED <<file, segmentLength, isProcessing, progress, status, error,
                 inputValue, isLoaded, ffmpeg, fs, timers, started, faults>>

\* await file.arrayBuffer() settles; then ffmpeg.writeFile(sanitized, ...) is called.
ArrayBufferDone(r) ==
  /\ runs[r].pc = "arrayBuffer"
  /\ UNCHANGED fs
  /\ \/ /\ runs' = [runs EXCEPT ![r] =
                      issue([@ EXCEPT !.pc = "writeFile"], "writeFile")]
        /\ UNCHANGED <<file, segmentLength, isProcessing, progress, status, error,
                       inputValue, isLoaded, ffmpeg, timers, started, faults>>
     \/ fault /\ catch(r, runs[r], opError("arrayBuffer"))

\* await ffmpeg.writeFile(...) settles; then ffmpeg.exec([...]) is called.
WriteFileDone(r) ==
  /\ runs[r].pc = "writeFile"
  /\ \/ /\ fs' = fsWrite(fs, sanitizedOf(runs[r].file), inputBytes(r))
        /\ progress' = Pct(10)
        /\ status' = StatusSlicing
        /\ runs' = [runs EXCEPT ![r] =
                      issue(setProgress([@ EXCEPT !.pc = "exec"], Pct(10)), "exec")]
        /\ UNCHANGED <<file, segmentLength, isProcessing, error, inputValue,
                       isLoaded, ffmpeg, timers, started, faults>>
     \/ /\ UNCHANGED fs
        /\ fault
        /\ catch(r, runs[r], opError("writeFile"))

\* await ffmpeg.exec([...]) settles, the engine having written count outputs
\* numbered from first: it returned, and ffmpeg.listDir('/') is called, or it
\* threw.
execSettles(r, first, count) ==
  LET argv == execArgv(runs[r].file, runs[r].segmentLength)
      rec == [runs[r] EXCEPT !.produced = count]
  IN /\ fs' = execWrites(fs, r, Counters(first, count), argv.pattern.ext)
     /\ \/ /\ progress' = Pct(60)
           /\ status' = StatusCollecting
           /\ runs' = [runs EXCEPT ![r] =
                         issue(setProgress([rec EXCEPT !.pc = "listDir"], Pct(60)),
                               "listDir")]
           /\ UNCHANGED <<file, segmentLength, isProcessing, error, inputValue,
                          isLoaded, ffmpeg, timers, started, faults>>
        \/ fault /\ catch(r, rec, execError(opError("exec")))

\* await ffmpeg.exec([...]) settles, for every outcome of the engine within the
\* bound.
ExecDone(r) ==
  /\ runs[r].pc = "exec"
  /\ \E first \in {0, 1}, count \in 0..MaxSegments : execSettles(r, first, count)

\* A guard that lets an empty collection through.
noOutputFiles_Never(outputFiles) == FALSE

\* outputFiles.length === 0
noOutputFiles(outputFiles) == Len(outputFiles) = 0

\* ffmpeg.listDir('/'): the resident names.
listDir(fsys) == sortNames(DOMAIN fsys)

\* A collection that lists every output twice.
collectOutputs_Twice(files, outputExt) ==
  sortNames({n \in Range(files) : isOutputFile(n, outputExt)})
    \o sortNames({n \in Range(files) : isOutputFile(n, outputExt)})

\* files.filter(f => ...).sort((a, b) => a.name.localeCompare(b.name))
collectOutputs(files, outputExt) ==
  sortNames({n \in Range(files) : isOutputFile(n, outputExt)})

\* await ffmpeg.listDir('/') settles; the outputs are filtered and sorted; then
\* the first ffmpeg.readFile is called.
ListDirDone(r) ==
  /\ runs[r].pc = "listDir"
  /\ UNCHANGED fs
  /\ \/ \E outs \in {collectOutputs(listDir(fs), outputExtOf(runs[r].file))} :
        LET rec == [runs[r] EXCEPT !.outputFiles = outs]
        IN IF noOutputFiles(outs)
           THEN UNCHANGED faults /\ catch(r, rec, ErrNoOutput)
           ELSE /\ progress' = Pct(70)
                /\ status' = StatusCreating(Len(outs))
                /\ runs' = [runs EXCEPT ![r] =
                              issue(setProgress([rec EXCEPT !.pc = "readFile", !.i = 0,
                                                             !.zip = <<>>], Pct(70)),
                                    "readFile")]
                /\ UNCHANGED <<file, segmentLength, isProcessing, error, inputValue,
                               isLoaded, ffmpeg, timers, started, faults>>
     \/ fault /\ catch(r, runs[r], opError("listDir"))

\* zip.file(name, data): an entry of that name is replaced.
zipFile(zip, name, data) == fsWrite(zip, name, data)

\* await ffmpeg.readFile(outputFiles[i].name) settles; the entry is added under
\* its ordinal name; then the next readFile, or zip.generateAsync, is called.
ReadFileDone(r) ==
  /\ runs[r].pc = "readFile"
  /\ UNCHANGED fs
  /\ LET rec == runs[r]
         n == Len(rec.outputFiles)
         name == rec.outputFiles[rec.i + 1]
         ext == outputExtOf(rec.file)
     IN \/ /\ name \in DOMAIN fs
           /\ LET added == setProgress(
                          [rec EXCEPT
                             !.zip = zipFile(@, zipFileName(baseNameOf(rec.file), rec.i, ext),
                                             fs[name]),
                             !.i = @ + 1],
                          archivingProgress(rec.i, n))
              IN IF added.i < n
                 THEN /\ progress' = archivingProgress(rec.i, n)
                      /\ runs' = [runs EXCEPT ![r] = issue(added, "readFile")]
                      /\ UNCHANGED status
                 ELSE /\ progress' = Pct(95)
                      /\ status' = StatusFinalizing
                      /\ runs' = [runs EXCEPT ![r] =
                                    setProgress([added EXCEPT !.pc = "generateAsync"],
                                                Pct(95))]
           /\ UNCHANGED <<file, segmentLength, isProcessing, error, inputValue,
                          isLoaded, ffmpeg, timers, started, faults>>
        \/ /\ IF name \in DOMAIN fs THEN fault ELSE UNCHANGED faults
           /\ catch(r, rec, opError("readFile"))

\* await zip.generateAsync(...) settles; the blob is delivered (the anchor is
\* clicked); then the first ffmpeg.deleteFile is called.  The delivery code may
\* throw before or after the click.
GenerateDone(r) ==
  /\ runs[r].pc = "generateAsync"
  /\ UNCHANGED fs
  /\ LET rec == [runs[r] EXCEPT !.zipBlob = TRUE]
         clicked == [rec EXCEPT !.delivered = @ + 1]
     IN \/ /\ runs' = [runs EXCEPT ![r] =
                         issue([clicked EXCEPT !.pc = "deleteFile", !.d = 1],
                               "deleteFile")]
           /\ UNCHANGED <<file, segmentLength, isProcessing, progress, status, error,
                          inputValue, isLoaded, ffmpeg, timers, started, faults>>
        \/ fault /\ catch(r, rec, opError("deliver"))
        \/ fault /\ catch(r, clicked, opError("deliver"))
        \/ fault /\ catch(r, runs[r], opError("generateAsync"))

\* The name the d-th deleteFile of the success path removes: the outputs in
\* order, then the input.
deleteTarget(rec) ==
  IF rec.d <= Len(rec.outputFiles) THEN rec.outputFiles[rec.d] ELSE sanitizedOf(rec.file)

\* A success path that reports the success after the last output is deleted,
\* without deleting the input.
DeleteFileDone_InputKept(r) ==
  /\ runs[r].pc = "deleteFile"
  /\ LET rec == runs[r]
         n == Len(rec.outputFiles)
     IN /\ deleteTarget(rec) \in DOMAIN fs
        /\ fs' = fsDelete(fs, deleteTarget(rec))
        /\ IF rec.d < n
           THEN /\ runs' = [runs EXCEPT ![r] = issue([rec EXCEPT !.d = @ + 1], "deleteFile")]
                /\ UNCHANGED <<isProcessing, progress, status, timers>>
           ELSE /\ progress' = Pct(100)
                /\ status' = StatusSuccess(n)
                /\ timers' = timers + 1
                /\ finally(r, setProgress(rec, Pct(100)))
        /\ UNCHANGED <<file, segmentLength, error, inputValue, isLoaded, ffmpeg,
                       started, faults>>

\* await ffmpeg.deleteFile(...) of the success path settles; then the next
\* deleteFile is called or, after the last, the success is reported, the reset
\* scheduled and the finally block run.
DeleteFileDone(r) ==
  /\ runs[r].pc = "deleteFile"
  /\ LET rec == runs[r]
         n == Len(rec.outputFiles)
         next == [rec EXCEPT !.d = @ + 1]
     IN \/ /\ deleteTarget(rec) \in DOMAIN fs
           /\ fs' = fsDelete(fs, deleteTarget(rec))
           /\ IF rec.d <= n
              THEN /\ runs' = [runs EXCEPT ![r] = issue(next, "deleteFile")]
                   /\ UNCHANGED <<isProcessing, progress, status, timers>>
              ELSE /\ progress' = Pct(100)
                   /\ status' = StatusSuccess(n)
                   /\ timers' = timers + 1
                   /\ finally(r, setProgress(rec, Pct(100)))
           /\ UNCHANGED <<file, segmentLength, error, inputValue, isLoaded, ffmpeg,
                          started, faults>>
        \/ /\ UNCHANGED fs
           /\ IF deleteTarget(rec) \in DOMAIN fs THEN fault ELSE UNCHANGED faults
           /\ catch(r, rec, opError("deleteFile"))

\* A cleanup that deletes nothing.
cleanupTargets_None(files, sanitized) == <<>>

\* The entries the failure cleanup deletes, in listing order.
cleanupTargets(files, sanitized) ==
  SelectSeq(files, LAMBDA n : cleanupMatches(n, sanitized))

\* A handler that shows the cleanup's error.
cleanupCatch_Shows(shown, msg) == processingError(msg)

\* catch (cleanupErr) { console.error(...) }: the error shown when the cleanup
\* itself threw msg is the one shown before.
cleanupCatch(shown, msg) == shown

\* .catch(() => {}) on a cleanup deleteFile that threw msg.
deleteCatch(shown, msg) == shown

\* The cleanup's await ffmpeg.listDir('/') settles; then the first matching
\* entry's deleteFile is called, or the finally block runs.
CleanupListDone(r) ==
  /\ runs[r].pc = "cleanupList"
  /\ UNCHANGED <<fs, file, segmentLength, progress, status, inputValue, isLoaded,
                 ffmpeg, timers, started>>
  /\ \/ \E targets \in {cleanupTargets(listDir(fs), sanitizedOf(runs[r].file))} :
        LET rec == [runs[r] EXCEPT !.cleanupFiles = targets, !.k = 1]
        IN /\ UNCHANGED <<error, faults>>
           /\ IF Len(targets) = 0
              THEN finally(r, rec)
              ELSE /\ runs' = [runs EXCEPT ![r] =
                                 issue([rec EXCEPT !.pc = "cleanupDelete"],
                                       "deleteFile")]
                   /\ UNCHANGED isProcessing
     \/ /\ fault
        /\ error' = cleanupCatch(error, opError("listDir"))
        /\ finally(r, [runs[r] EXCEPT !.cleanupThrew = TRUE])

\* A cleanup await ffmpeg.deleteFile(f.name).catch(() => {}) settles; then the
\* next matching entry's deleteFile is called, or the finally block runs.
CleanupDeleteDone(r) ==
  /\ runs[r].pc = "cleanupDelete"
  /\ UNCHANGED <<file, segmentLength, progress, status, inputValue, isLoaded,
                 ffmpeg, timers, started>>
  /\ LET rec == runs[r]
         name == rec.cleanupFiles[rec.k]
         step(next) ==
           IF rec.k < Len(rec.cleanupFiles)
           THEN /\ runs' = [runs EXCEPT ![r] = issue(next, "deleteFile")]
                /\ UNCHANGED isProcessing
           ELSE finally(r, next)
     IN \/ /\ name \in DOMAIN fs
           /\ fs' = fsDelete(fs, name)
           /\ UNCHANGED <<error, faults>>
           /\ step([rec EXCEPT !.k = @ + 1])
        \/ /\ UNCHANGED fs
           /\ IF name \in DOMAIN fs THEN fault ELSE UNCHANGED faults
           /\ error' = deleteCatch(error, opError("deleteFile"))
           /\ step([rec EXCEPT !.k = @ + 1, !.cleanupThrew = TRUE])

\* ---------------------------------------------------------- specification
RunStep(r) ==
  \/ ArrayBufferDone(r)
  \/ WriteFileDone(r)
  \/ ExecDone(r)
  \/ ListDirDone(r)
  \/ ReadFileDone(r)
  \/ GenerateDone(r)
  \/ DeleteFileDone(r)
  \/ CleanupListDone(r)
  \/ CleanupDeleteDone(r)

Next ==
  \/ LoadFFmpeg
  \/ SelectFile
  \/ SetSegmentLength
  \/ ClickProcess
  \/ ResetTimer
  \/ \E r \in RunIds : RunStep(r)

Spec == Init /\ [][Next]_vars

\* Every awaited operation of a run eventually returns or throws.
SpecLive == Init /\ [][Next]_vars /\ \A r \in RunIds : WF_vars(RunStep(r))

\* handleProcess as a function of the component state it is invoked in: the
\* states of an idle component, whatever the file, the hook's isLoaded and
\* ffmpeg and the segment length are, before or after an earlier success.
CallFiles == {NoFile, Clip, OutA}

CallSegmentLengths == {0 - 5, 0, DefaultSegmentLength}

InitCall ==
  /\ file \in CallFiles
  /\ segmentLength \in CallSegmentLengths
  /\ isProcessing = FALSE
  /\ progress \in {Pct(0), Pct(100)}
  /\ progress = Pct(100) => file # NoFile
  /\ status = IF progress = Pct(100) THEN StatusSuccess(1)
              ELSE IF file # NoFile THEN StatusSelected ELSE NoStatus
  /\ error \in {NoError, ErrTooLarge}
  /\ inputValue = file
  /\ isLoaded \in BOOLEAN
  /\ ffmpeg \in {NULL, Engine}
  /\ fs = EmptyFs
  /\ timers = IF progress = Pct(100) THEN 1 ELSE 0
  /\ runs = [r \in RunIds |-> NoRun]
  /\ started = 0
  /\ faults = 0

NextCall == handleProcess

SpecCall == InitCall /\ [][NextCall]_vars

\* End-to-end scenario A: the component with "My Clip (2024).mov" as the one
\* file of the dialog and an engine whose command writes three outputs,
\* numbered 01 to 03 under the pattern it was given.  The segment-length
\* input takes more texts: also "3600" and "4000".
SegmentTextsA == SegmentTexts \cup { <<"3", "6", "0", "0">>, <<"4", "0", "0", "0">> }

SetSegmentLengthA == \E t \in SegmentTextsA : segmentLengthChange(segmentLengthOf(t))

SelectFileA ==
  /\ ~fileInputDisabled
  /\ inputValue # MyClip
  /\ handleFileSelect(MyClip)

ExecDoneA(r) ==
  /\ runs[r].pc = "exec"
  /\ execSettles(r, 1, 3)

RunStepA(r) ==
  \/ ArrayBufferDone(r)
  \/ WriteFileDone(r)
  \/ ExecDoneA(r)
  \/ ListDirDone(r)
  \/ ReadFileDone(r)
  \/ GenerateDone(r)
  \/ DeleteFileDone(r)
  \/ CleanupListDone(r)
  \/ CleanupDeleteDone(r)

NextA ==
  \/ LoadFFmpeg
  \/ SelectFileA
  \/ SetSegmentLengthA
  \/ ClickProcess
  \/ ResetTimer
  \/ \E r \in RunIds : RunStepA(r)

SpecA == Init /\ [][NextA]_vars

\* ------------------------------------------------------------ properties
\* Run r has settled (its finally block ran) and its locals are still held.
Settled(r) == runs[r].pc = "done" /\ runs[r].file # NoFile

\* Run r passed the precondition checks and its locals are still held.
Started(r) == runs[r].file # NoFile

\* The error message of a command that threw.
ExecThrown == execError(opError("exec"))

\* C1 (as amended): in every run in which ffmpeg.exec threw, once the run has
\* settled as failed (error set, isProcessing false) the virtual filesystem
\* holds no entry whose name starts with 'out_' and no entry named as the
\* sanitized input, provided the cleanup's listDir and every cleanup deleteFile
\* returned without throwing.
C1_CleanupOnExecFailure ==
  \A r \in RunIds :
    Settled(r) /\ runs[r].thrown = ExecThrown /\ ~runs[r].cleanupThrew
      => /\ error # NoError
         /\ ~isProcessing
         /\ \A n \in DOMAIN fs :
              ~startsWith(n, OutPrefix) /\ n # sanitizeFilename(runs[r].file.name)

\* A command wrote outputs and threw, and the cleanup removed them and the input.
C1_Witness ==
  \E r \in RunIds :
    /\ Settled(r) /\ runs[r].thrown = ExecThrown /\ ~runs[r].cleanupThrew
    /\ runs[r].produced >= 1
    /\ Len(runs[r].cleanupFiles) >= 2
    /\ fs = EmptyFs

\* C1 as stated: the same without the proviso on the cleanup's own operations.
C1_AsStated ==
  \A r \in RunIds :
    Settled(r) /\ runs[r].thrown = ExecThrown
      => /\ error # NoError
         /\ ~isProcessing
         /\ \A n \in DOMAIN fs :
              ~startsWith(n, OutPrefix) /\ n # sanitizeFilename(runs[r].file.name)

\* C2 (as amended): when exec returned and the listing held no entry matching
\* the output prefix and extension, the run settles failed with the 'No output
\* files were created' error, which differs from the error of a command that
\* threw; no archive entry is added, no blob produced, nothing delivered; and
\* the input entry is gone from the filesystem provided the cleanup's listDir
\* and deleteFile calls returned without throwing.  No run goes on to read with
\* an empty collection.
C2_ZeroOutputGuard ==
  \A r \in RunIds :
    /\ runs[r].pc \in {"readFile", "generateAsync", "deleteFile"}
         => runs[r].outputFiles # <<>>
    /\ Settled(r) /\ runs[r].thrown = ErrNoOutput
         => /\ error = processingError(ErrNoOutput)
            /\ error # processingError(ExecThrown)
            /\ ~isProcessing
            /\ runs[r].outputFiles = <<>>
            /\ runs[r].zip = <<>> /\ ~runs[r].zipBlob /\ runs[r].delivered = 0
            /\ ~runs[r].cleanupThrew
                  => sanitizeFilename(runs[r].file.name) \notin DOMAIN fs

\* A command returned having written nothing, and the run settled with the
\* input removed.
C2_Witness ==
  \E r \in RunIds :
    /\ Settled(r) /\ runs[r].thrown = ErrNoOutput /\ ~runs[r].cleanupThrew
    /\ runs[r].produced = 0
    /\ runs[r].cleanupFiles = <<sanitizeFilename(runs[r].file.name)>>
    /\ fs = EmptyFs

\* C2 as stated: the input entry is removed in every such run.
C2_AsStated ==
  \A r \in RunIds :
    Settled(r) /\ runs[r].thrown = ErrNoOutput
      => /\ error = processingError(ErrNoOutput)
         /\ runs[r].zip = <<>> /\ ~runs[r].zipBlob /\ runs[r].delivered = 0
         /\ sanitizeFilename(runs[r].file.name) \notin DOMAIN fs

\* The archive of run r is complete: every collected entry was read and added.
ArchiveBuilt(r) == runs[r].pc = "generateAsync" \/ runs[r].zipBlob

C4_CleanupAfterArchiving ==
  \A r \in RunIds :
    Settled(r) /\ ~runs[r].cleanupThrew
      => /\ runs[r].zipBlob
              => \A n \in Range(runs[r].outputFiles)
                            \cup {sanitizeFilename(runs[r].file.name)} :
                   n \notin DOMAIN fs
         /\ runs[r].cleanAtStart => fs = EmptyFs

\* The blob was produced, the delivery threw, and the run settled with the
\* filesystem, empty at its start, empty again.
C4_Witness ==
  \E r \in RunIds :
    /\ Settled(r) /\ ~runs[r].cleanupThrew
    /\ runs[r].zipBlob /\ runs[r].thrown = opError("deliver")
    /\ Len(runs[r].outputFiles) >= 2
    /\ runs[r].cleanAtStart /\ fs = EmptyFs

\* C4 as stated: the same whatever the cleanup's own operations did.
C4_AsStated ==
  \A r \in RunIds :
    Settled(r)
      => /\ runs[r].zipBlob
              => \A n \in Range(runs[r].outputFiles)
                            \cup {sanitizeFilename(runs[r].file.name)} :
                   n \notin DOMAIN fs
         /\ runs[r].cleanAtStart => fs = EmptyFs

\* C5: an invocation of handleProcess with no file selected, or with the engine
\* not loaded, or with segmentLength <= 0, reports a validation error and
\* leaves isProcessing false, the progress unchanged, no run begun and no engine
\* operation issued (the filesystem and every run's log are as before).
C5_PreconditionFailure ==
  [][(file = NoFile \/ ~isLoaded \/ segmentLength <= 0)
       => /\ error' \in ValidationErrors
          /\ isProcessing = FALSE /\ isProcessing' = FALSE
          /\ progress' = progress
          /\ status' = status /\ file' = file /\ timers' = timers
          /\ started' = started
          /\ fs' = fs
          /\ \A r \in RunIds : runs'[r].pc = "idle" /\ runs'[r].ops = <<>>]_vars

\* handleProcess was invoked with a loaded engine, a file and segment length 0,
\* and reported the segment-length error without starting a run.
C5_Witness ==
  /\ file # NoFile /\ isLoaded /\ ffmpeg # NULL /\ segmentLength = 0
  /\ error = ErrSegmentLength
  /\ ~isProcessing /\ started = 0 /\ fs = EmptyFs

\* C6: in every failed run the error shown is derived from the first error
\* raised in the run; while the cleanup runs and once the run has settled, an
\* error thrown by the cleanup's listDir or by a cleanup deleteFile has not
\* replaced it, and the run settles (isProcessing false) all the same.
C6_OriginalErrorShown ==
  \A r \in RunIds :
    /\ runs[r].pc \in {"cleanupList", "cleanupDelete"}
         => runs[r].thrown # NoError /\ error = processingError(runs[r].thrown)
    /\ Settled(r) /\ runs[r].thrown # NoError
         => error = processingError(runs[r].thrown) /\ ~isProcessing

\* A command threw, then an operation of the cleanup threw, and the run settled
\* showing the command's error.
C6_Witness ==
  \E r \in RunIds :
    /\ Settled(r) /\ runs[r].cleanupThrew
    /\ runs[r].thrown = ExecThrown
    /\ error = processingError(ExecThrown)
    /\ ~isProcessing

\* C7 as stated: a run whose archive was built and delivered, and which went
\* on to the cleanup that follows the delivery, is reported as succeeded
\* whatever the deleteFile calls of that cleanup did.
C7_AsStated ==
  \A r \in RunIds :
    Settled(r) /\ runs[r].zipBlob /\ runs[r].delivered = 1 /\ runs[r].d >= 1
      => /\ error = NoError
         /\ status = StatusSuccess(Len(runs[r].outputFiles))

\* C8: a later run has begun only if every earlier run has settled, so at most
\* one run is between its start and its finally block, and isProcessing is true
\* exactly while one is.
C8_OneRunAtATime ==
  /\ \A r1, r2 \in RunIds :
       r1 < r2 /\ runs[r2].pc # "idle" => runs[r1].pc = "done"
  /\ Cardinality({r \in RunIds : runs[r].pc \notin {"idle", "done"}}) <= 1
  /\ isProcessing <=> \E r \in RunIds : runs[r].pc \notin {"idle", "done"}

\* A second run is executing its command, the first having settled.
C8_Witness ==
  /\ runs[1].pc = "done"
  /\ runs[2].pc = "exec"
  /\ isProcessing

\* C9 as stated: the delayed reset never fires while a run is in progress.
C9_AsStated == [][~(isProcessing /\ timers' < timers)]_vars

\* C10: the selected file, and the file of every run, passed the format check
\* and is no larger than the ceiling of 500 * 1024 * 1024 bytes; the check
\* accepts the file of exactly the ceiling size and rejects the larger file and
\* the file of an unsupported format with their errors.
C10_SelectionValidation ==
  /\ file # NoFile => isSupportedMediaFile(file) /\ file.size <= 500 * 1024 * 1024
  /\ \A r \in RunIds :
       runs[r].file # NoFile
         => isSupportedMediaFile(runs[r].file) /\ runs[r].file.size <= 500 * 1024 * 1024
  /\ OutA.size = 500 * 1024 * 1024 /\ selectError(OutA) = NoError
  /\ Big.size > 500 * 1024 * 1024 /\ selectError(Big) = ErrTooLarge
  /\ ~isSupportedMediaFile(Notes) /\ selectError(Notes) = ErrUnsupported

\* The file of exactly the ceiling size was accepted and stays selected, and the
\* larger file picked after it was rejected with the size error.
C10_Witness ==
  /\ file = OutA
  /\ inputValue = Big
  /\ error = ErrTooLarge
  /\ started = 0

\* A run of scenario A in which no operation threw: the file is "My Clip
\* (2024).mov", the segment length 30, and the command wrote three outputs.
ScenarioARun(r) ==
  /\ Settled(r)
  /\ runs[r].file = MyClip
  /\ runs[r].segmentLength = 30
  /\ runs[r].produced = 3
  /\ runs[r].thrown = NoError

\* C11 (as amended): for the input 'My Clip (2024).mov', sanitized to
\* 'My_Clip_2024.mov', with segment length 30, the engine's outputs are
\* out_01.mov .. out_03.mov, and a run in which no operation throws succeeds:
\* its archive holds exactly My_Clip_2024_segment_01.mov, _02.mov and _03.mov,
\* it was delivered once, and the final status reports 3 segments.
C11_ScenarioA ==
  /\ sanitizeFilename(MyClip.name) =
       <<"M", "y", "_", "C", "l", "i", "p", "_", "2", "0", "2", "4", ".", "m",
      "o", "v">>
  /\ \A r \in RunIds :
       /\ runs[r].pc = "listDir" /\ runs[r].file = MyClip
            => { <<"o", "u", "t", "_", "0", "1", ".", "m", "o", "v">>,
               <<"o", "u", "t", "_", "0", "2", ".", "m", "o", "v">>,
               <<"o", "u", "t", "_", "0", "3", ".", "m", "o", "v">> }
                 \subseteq DOMAIN fs
       /\ ScenarioARun(r)
            => /\ DOMAIN runs[r].zip =
                    { <<"M", "y", "_", "C", "l", "i", "p", "_", "2", "0", "2", "4", "_", "s",
                      "e", "g", "m", "e", "n", "t", "_", "0", "1", ".", "m", "o", "v">>,
                    <<"M", "y", "_", "C", "l", "i", "p", "_", "2", "0", "2", "4", "_", "s",
                      "e", "g", "m", "e", "n", "t", "_", "0", "2", ".", "m", "o", "v">>,
                    <<"M", "y", "_", "C", "l", "i", "p", "_", "2", "0", "2", "4", "_", "s",
                      "e", "g", "m", "e", "n", "t", "_", "0", "3", ".", "m", "o", "v">> }
               /\ runs[r].delivered = 1
               /\ error = NoError
               /\ progress = Pct(100)
               /\ status = StatusSuccess(3)

\* Scenario A ran to success and reports 3 segments.
C11_Witness ==
  \E r \in RunIds :
    /\ ScenarioARun(r)
    /\ Cardinality(DOMAIN runs[r].zip) = 3
    /\ status = StatusSuccess(3)
    /\ fs = EmptyFs

\* C11 as stated: the archive of that run holds exactly
\* My_Clip_2024.mov_segment_01.mp4, _02.mp4 and _03.mp4, and the final status
\* reports 3 segments.
C11_AsStated ==
  \A r \in RunIds :
    ScenarioARun(r)
      => /\ DOMAIN runs[r].zip =
              { <<"M", "y", "_", "C", "l", "i", "p", "_", "2", "0", "2", "4", ".", "m",
                "o", "v", "_", "s", "e", "g", "m", "e", "n", "t", "_", "0", "1", ".",
                "m", "p", "4">>,
              <<"M", "y", "_", "C", "l", "i", "p", "_", "2", "0", "2", "4", ".", "m",
                "o", "v", "_", "s", "e", "g", "m", "e", "n", "t", "_", "0", "2", ".",
                "m", "p", "4">>,
              <<"M", "y", "_", "C", "l", "i", "p", "_", "2", "0", "2", "4", ".", "m",
                "o", "v", "_", "s", "e", "g", "m", "e", "n", "t", "_", "0", "3", ".",
                "m", "p", "4">> }
         /\ status = StatusSuccess(3)

\* Order and equality of progress values (fractions with positive denominators).
fracLeq(a, b) == a[1] * b[2] <= b[1] * a[2]

fracEq(a, b) == a[1] * b[2] = b[1] * a[2]

\* C12: the progress values a run sets, in order, are non-decreasing and within
\* 0..100: 0 at start, 10 after the input is written, 60 after exec returns, 70
\* after collection, 70 + (k/N)*20 after the k-th of N segments is archived, 95
\* at finalization and 100 at success; the value set just before 95 is exactly
\* 90, and no value has the denominator 0.
C12_ProgressMonotone ==
  \A r \in RunIds :
    Started(r) =>
    LET s == runs[r].sets
        N == Len(runs[r].outputFiles)
        at(j, v) == Len(s) >= j => fracEq(s[j], v)
    IN /\ \A j \in DOMAIN s :
            /\ s[j][2] >= 1
            /\ fracLeq(Pct(0), s[j]) /\ fracLeq(s[j], Pct(100))
            /\ j > 1 => fracLeq(s[j - 1], s[j])
            /\ fracEq(s[j], Pct(95)) => j > 1 /\ fracEq(s[j - 1], Pct(90))
       /\ runs[r].pc \notin {"idle", "done"} => Len(s) >= 1
       /\ at(1, Pct(0)) /\ at(2, Pct(10)) /\ at(3, Pct(60)) /\ at(4, Pct(70))
       /\ Len(s) >= 5 => N >= 1
       /\ \A k \in 1..N : at(4 + k, <<70 * N + k * 20, N>>)
       /\ at(4 + N + 1, Pct(95)) /\ at(4 + N + 2, Pct(100))
       /\ Len(s) <= 4 + N + 2
       /\ runs[r].pc = "arrayBuffer" => Len(s) = 1
       /\ runs[r].pc = "writeFile" => Len(s) = 1
       /\ runs[r].pc = "exec" => Len(s) = 2
       /\ runs[r].pc = "listDir" => Len(s) = 3
       /\ runs[r].pc = "readFile" => Len(s) = 4 + runs[r].i
       /\ runs[r].pc \in {"generateAsync", "deleteFile"} => Len(s) = 4 + N + 1
       /\ Settled(r) /\ runs[r].thrown = NoError
            => Len(s) = 4 + N + 2 /\ progress = Pct(100)

\* A run archived two segments and succeeded: it set 0, 10, 60, 70, 80, 90, 95
\* and 100.
C12_Witness ==
  \E r \in RunIds :
    /\ Settled(r) /\ runs[r].thrown = NoError
    /\ Len(runs[r].outputFiles) = 2
    /\ runs[r].sets = <<Pct(0), Pct(10), Pct(60), Pct(70), <<160, 2>>, <<180, 2>>,
                        Pct(95), Pct(100)>>

\* C13 as stated: the segment length held in state, and the '-segment_time'
\* value of every command a run has issued, is an integer of 1..3600.
C13_AsStated ==
  /\ segmentLength \in 1..3600
  /\ \A r \in RunIds :
       "exec" \in Range(runs[r].ops)
         => LET t == parseInt(execArgv(runs[r].file, runs[r].segmentLength).segment_time)
            IN ~t.nan /\ t.value \in 1..3600

\* A command was issued with '-segment_time' 4000.
C13_Witness ==
  \E r \in RunIds :
    /\ runs[r].pc = "exec"
    /\ execArgv(runs[r].file, runs[r].segmentLength).segment_time = <<"4", "0", "0", "0">>

\* The message is the error of a failed run.
runError(e) == e # NoError /\ e[1] = processingError(NoError)[1]

\* C14 (as amended): the error message of a failed run stays visible until
\* the next file selection or run attempt: a step that clears or replaces it
\* is a change event of the file input or an invocation of handleProcess; no
\* timer, no edit of the segment length and no step of the cleanup does.
C14_ErrorStaysVisible ==
  [][runError(error) /\ error' # error => SelectFile \/ ClickProcess]_vars

\* The only run failed, the segment length was edited afterwards, and the
\* run's error is still shown.
C14_Witness ==
  /\ runError(error)
  /\ started = 1 /\ runs[1] = Released
  /\ ~isProcessing
  /\ segmentLength < 0

\* C14 as stated: a step that clears or replaces the error of a failed run is
\* an invocation of handleProcess.
C14_AsStated ==
  [][runError(error) /\ error' # error => ClickProcess]_vars

\* n copies of op.
repeat(op, n) == [j \in 1..n |-> op]

\* s is an initial part of t.
isPrefix(s, t) == Len(s) <= Len(t) /\ SubSeq(t, 1, Len(s)) = s

\* The engine calls of a run with N collected outputs that runs to success.
protocol(N) ==
  <<"writeFile", "exec", "listDir">> \o repeat("readFile", N) \o repeat("deleteFile", N + 1)

\* The engine calls run r issued in its try block, and those of its catch block.
tryOps(r) ==
  IF runs[r].thrown = NoError THEN runs[r].ops
  ELSE SubSeq(runs[r].ops, 1, runs[r].caughtAt)

catchOps(r) ==
  IF runs[r].thrown = NoError THEN <<>>
  ELSE SubSeq(runs[r].ops, runs[r].caughtAt + 1, Len(runs[r].ops))

\* How many times op occurs in s.
occurrences(s, op) == Cardinality({j \in DOMAIN s : s[j] = op})

\* C15: the engine calls of a run's try block occur in the order writeFile,
\* exec, listDir, readFile of each output, deleteFile.  exec is issued exactly
\* once in a run whose writeFile completed, and while it is pending the input
\* the run wrote is resident.  The collection's listDir is pending only after
\* exec returned (progress 60 was set), and a readFile only after that listDir
\* returned (the outputs are collected, progress 70 was set).
C15_ProtocolOrder ==
  \A r \in RunIds :
    Started(r) =>
    LET rec == runs[r]
        N == Len(rec.outputFiles)
    IN /\ isPrefix(tryOps(r), protocol(N))
       /\ N = 0 => Len(tryOps(r)) <= 3
       /\ occurrences(tryOps(r), "exec") = (IF Len(rec.sets) >= 2 THEN 1 ELSE 0)
       /\ rec.pc = "exec"
            => /\ tryOps(r) = <<"writeFile", "exec">>
               /\ sanitizeFilename(rec.file.name) \in DOMAIN fs
               /\ fs[sanitizeFilename(rec.file.name)] = inputBytes(r)
       /\ rec.pc = "listDir"
            => tryOps(r) = <<"writeFile", "exec", "listDir">> /\ Len(rec.sets) = 3
       /\ rec.pc = "readFile"
            => /\ N >= 1 /\ Len(rec.sets) >= 4
               /\ tryOps(r) = <<"writeFile", "exec", "listDir">>
                                 \o repeat("readFile", rec.i + 1)

\* A run issued writeFile, exec, listDir, two readFile and three deleteFile
\* calls and succeeded.
C15_Witness ==
  \E r \in RunIds :
    /\ Settled(r) /\ runs[r].thrown = NoError
    /\ runs[r].ops = protocol(2)

\* The state part of C16 for run r.
noRetry(r) ==
  LET rec == runs[r]
      N == Len(rec.outputFiles)
  IN /\ occurrences(rec.ops, "writeFile") <= 1
     /\ occurrences(rec.ops, "exec") <= 1
     /\ occurrences(rec.ops, "readFile") <= N
     /\ Cardinality(Range(rec.outputFiles)) = N
     /\ occurrences(tryOps(r), "listDir") <= 1
     /\ \E k \in 0..Len(rec.cleanupFiles) :
          catchOps(r) \in {<<>>, <<"listDir">> \o repeat("deleteFile", k)}
     /\ Cardinality(Range(rec.cleanupFiles)) = Len(rec.cleanupFiles)

\* C16: within one run writeFile and exec are invoked at most once, and
\* readFile at most once for each collected name (the k-th readFile reads the
\* k-th collected name, and the names are distinct); after a step of the run
\* has failed the run invokes only the cleanup's one listDir and a deleteFile
\* for each distinct entry to clean; a settled run never resumes, and a run
\* begins only by an invocation of handleProcess.
C16_NoRetries ==
  [][/\ \A r \in RunIds : noRetry(r)'
     /\ \A r \in RunIds : runs[r].pc = "done" => runs'[r].pc = "done"
     /\ started' # started => ClickProcess]_vars

\* A command threw; the run issued writeFile, exec, then the cleanup's listDir
\* and deleteFile calls, and settled.
C16_Witness ==
  \E r \in RunIds :
    /\ Settled(r) /\ runs[r].thrown = ExecThrown
    /\ tryOps(r) = <<"writeFile", "exec">>
    /\ Len(runs[r].cleanupFiles) >= 2
    /\ catchOps(r) = <<"listDir">> \o repeat("deleteFile", Len(runs[r].cleanupFiles))

\* C17: the readFile calls of a run are issued one at a time, each after the
\* one before it returned and its bytes were added to the archive: while the
\* read of the entry at position i + 1 is pending, i + 1 reads were issued and
\* the archive holds exactly the first i collected entries, the entry of
\* position k under ordinal k with the bytes of the k-th collected name; the
\* collected names are in ascending name order.
C17_SequentialCollection ==
  \A r \in RunIds :
    Started(r) =>
    LET rec == runs[r]
        N == Len(rec.outputFiles)
        base == baseNameFrom(sanitizeFilename(rec.file.name))
        ext == outputExtFrom(sanitizeFilename(rec.file.name))
        done == IF rec.pc = "readFile" THEN rec.i ELSE N
    IN /\ \A j, k \in 1..N : j < k => localeLess(rec.outputFiles[j], rec.outputFiles[k])
       /\ rec.pc = "readFile"
            => rec.i < N /\ occurrences(rec.ops, "readFile") = rec.i + 1
       /\ rec.pc \in {"readFile", "generateAsync"}
            => /\ DOMAIN rec.zip = {zipFileName(base, k - 1, ext) : k \in 1..done}
               /\ Cardinality(DOMAIN rec.zip) = done
               /\ \A k \in 1..done :
                    rec.zip[zipFileName(base, k - 1, ext)] = fs[rec.outputFiles[k]]
       /\ rec.pc = "generateAsync" => occurrences(rec.ops, "readFile") = N

\* The first of two collected entries was read and added, and the read of the
\* second is pending.
C17_Witness ==
  \E r \in RunIds :
    /\ runs[r].pc = "readFile"
    /\ Len(runs[r].outputFiles) = 2
    /\ runs[r].i = 1
    /\ Cardinality(DOMAIN runs[r].zip) = 1

\* The counters of the segments the command of run r wrote, as resident.
segmentCounters(r) ==
  {fs[n].n : n \in {m \in DOMAIN fs : fs[m].kind = "segment" /\ fs[m].run = r}}

\* The k-th smallest element of a set of integers.
kth(S, k) == CHOOSE c \in S : Cardinality({d \in S : d < c}) = k - 1

\* C18 as stated: in a run whose command produced N outputs (N at most 99),
\* once the archive is complete the entry with ordinal k holds the bytes of
\* the command's k-th segment in counter order, for every k in 1..N.
C18_AsStated ==
  \A r \in RunIds :
    LET rec == runs[r]
        N == rec.produced
        base == baseNameFrom(sanitizeFilename(rec.file.name))
        ext == outputExtFrom(sanitizeFilename(rec.file.name))
    IN rec.pc = "generateAsync" /\ N <= 99 /\ Cardinality(segmentCounters(r)) = N
         => \A k \in 1..N :
              /\ zipFileName(base, k - 1, ext) \in DOMAIN rec.zip
              /\ rec.zip[zipFileName(base, k - 1, ext)]
                   = segmentBytes(r, kth(segmentCounters(r), k))

\* C19 as stated: an entry left in the filesystem by an earlier run, and not
\* overwritten by the later run's command, is not collected by the later run,
\* not added to its archive and not counted: what a run collects, archives and
\* counts was written by the run itself.
C19_AsStated ==
  \A r \in RunIds :
    /\ runs[r].pc \in {"readFile", "generateAsync"}
         => /\ \A n \in Range(runs[r].outputFiles) : fs[n].run = r
            /\ status = StatusCreating(Len(runs[r].outputFiles))
                 => Len(runs[r].outputFiles)
                      = Cardinality({n \in DOMAIN fs : isOutputFile(n, outputExtOf(runs[r].file))
                                                         /\ fs[n].run = r})
    /\ \A z \in DOMAIN runs[r].zip : runs[r].zip[z].run = r

\* The archive of a later run holds the bytes of an entry an earlier run left.
C19_Witness ==
  \E r \in RunIds :
    /\ runs[r].pc = "generateAsync"
    /\ \E z \in DOMAIN runs[r].zip : runs[r].zip[z].run < r

\* Run r passed the precondition checks and has not settled.
InProgress(r) == runs[r].pc \notin {"idle", "done"}

\* C20: every run that passed the precondition checks eventually settles, and
\* a run that has settled left isProcessing false with either the success
\* status set (and no error) or its error message set.
C20_EveryRunSettles ==
  /\ \A r \in RunIds : InProgress(r) ~> (runs[r].pc = "done" /\ ~isProcessing)
  /\ [](\A r \in RunIds :
          Settled(r)
            => /\ ~isProcessing
               /\ \/ /\ runs[r].thrown = NoError
                     /\ error = NoError
                     /\ status = StatusSuccess(Len(runs[r].outputFiles))
                  \/ /\ runs[r].thrown # NoError
                     /\ error = processingError(runs[r].thrown)
                     /\ status = NoStatus)

\* Both runs of the bound have settled, one in success and one in failure.
C20_Witness ==
  /\ \A r \in RunIds : runs[r].pc = "done"
  /\ ~isProcessing
  /\ \E r \in RunIds : Settled(r) /\ runs[r].thrown # NoError
  /\ timers > 0

\* The 'Success! ...' status is shown.
successShown(st) == st.text = StatusSuccess(0).text

\* The entries run r collected and the input entry it wrote.
filesOf(r) == Range(runs[r].outputFiles) \cup {sanitizeFilename(runs[r].file.name)}

\* The state part of C21 for run r.
deliveryThenCleanup(r) ==
  LET rec == runs[r]
      N == Len(rec.outputFiles)
      reported == \E j \in DOMAIN rec.sets : rec.sets[j] = Pct(100)
  IN /\ rec.delivered <= 1
     /\ rec.delivered = 1
          => /\ rec.zipBlob /\ N >= 1 /\ rec.i = N
             /\ Cardinality(DOMAIN rec.zip) = N
             /\ occurrences(tryOps(r), "readFile") = N
     /\ occurrences(tryOps(r), "deleteFile") >= 1 => rec.delivered = 1
     /\ rec.pc = "deleteFile"
          => \A k \in 1..(rec.d - 1) : rec.outputFiles[k] \notin DOMAIN fs
     /\ reported
          => /\ Settled(r) /\ rec.thrown = NoError /\ rec.delivered = 1
             /\ occurrences(rec.ops, "deleteFile") = N + 1
     /\ Settled(r) /\ rec.thrown = NoError
          => /\ reported
             /\ status = StatusSuccess(N) /\ progress = Pct(100)
             /\ filesOf(r) \cap DOMAIN fs = {}

\* C21: in a run, delivery is triggered at most once, and only after every
\* collected output was read and added and the blob was produced; the try
\* block issues no deleteFile before delivery was triggered; progress 100 and
\* the success status are set only after deleteFile completed for every
\* collected output and for the input.  The step that shows the success status
\* is the one after the last deleteFile, with none of the run's files resident,
\* and while the status stays shown the virtual filesystem does not change.
C21_DeliveryThenCleanup ==
  /\ [](\A r \in RunIds : Started(r) => deliveryThenCleanup(r))
  /\ [][/\ successShown(status') /\ status' # status
            => \E r \in RunIds :
                 /\ runs[r].pc = "deleteFile" /\ runs[r].d = Len(runs[r].outputFiles) + 1
                 /\ Settled(r)' /\ runs'[r].thrown = NoError
                 /\ progress' = Pct(100)
                 /\ (filesOf(r) \cap DOMAIN fs = {})'
         /\ successShown(status) /\ status' = status => fs' = fs]_vars

\* A run read two outputs, delivered the archive once, deleted both outputs and
\* the input, and reports the success with an empty filesystem.
C21_Witness ==
  \E r \in RunIds :
    /\ Settled(r) /\ runs[r].thrown = NoError
    /\ Len(runs[r].outputFiles) = 2
    /\ runs[r].delivered = 1
    /\ occurrences(runs[r].ops, "deleteFile") = 3
    /\ status = StatusSuccess(2)
    /\ fs = EmptyFs
\* The name the k-th deleteFile of run r's try block is issued for: the
\* collected outputs in order, then the input.
deleted(r, k) ==
  IF k <= Len(runs[r].outputFiles) THEN runs[r].outputFiles[k]
  ELSE sanitizeFilename(runs[r].file.name)

\* C22 as stated: every entry a run has read into its archive holds the bytes
\* of an output that run's command wrote; a run that reported success issued
\* deleteFile for its input entry exactly once; and a run that delivered its
\* archive, no operation having failed, has settled without an error and with
\* the success status.
C22_AsStated ==
  \A r \in RunIds :
    Started(r) =>
      /\ \A z \in DOMAIN runs[r].zip :
           runs[r].zip[z].kind = "segment" /\ runs[r].zip[z].run = r
      /\ Cardinality({k \in 1..occurrences(tryOps(r), "deleteFile") :
                        deleted(r, k) = sanitizeFilename(runs[r].file.name)}) <= 1
      /\ Settled(r) /\ runs[r].thrown = NoError
           => Cardinality({k \in 1..occurrences(tryOps(r), "deleteFile") :
                             deleted(r, k) = sanitizeFilename(runs[r].file.name)}) = 1
      /\ Settled(r) /\ runs[r].delivered = 1 /\ faults = 0
           => runs[r].thrown = NoError /\ successShown(status)

\* The input 'out_a.mp4' was collected with the outputs, read into the archive
\* and deleted in the loop; the archive was delivered; no operation failed; and
\* the run settled with the error of the input's own deleteFile.
C22_Witness ==
  \E r \in RunIds :
    /\ Settled(r)
    /\ runs[r].file = OutA
    /\ faults = 0
    /\ runs[r].delivered = 1
    /\ \E z \in DOMAIN runs[r].zip : runs[r].zip[z].kind = "input"
    /\ sanitizeFilename(OutA.name) \in Range(runs[r].outputFiles)
    /\ runs[r].thrown = opError("deleteFile")
    /\ error = processingError(opError("deleteFile"))
    /\ ~successShown(status)
\* C23 as stated: a step taken while a run is in progress leaves the selected
\* file unchanged, changes the progress or the status only if it is a step of
\* the run in progress, and does not decrease the progress; and a step taken
\* while a newly selected file is shown as ready does not clear the selection.
C23_AsStated ==
  [][/\ isProcessing
          => /\ file' = file
             /\ progress' # progress \/ status' # status
                  => \E r \in RunIds : InProgress(r) /\ runs'[r] # runs[r]
             /\ fracLeq(progress, progress')
     /\ status = StatusSelected => file' # NoFile]_vars

\* The reset scheduled by an earlier success has fired under a run that had
\* written its input and set progress 10: the run is still in progress, while
\* the file selection, the progress and the status are cleared.
C23_Witness ==
  \E r \in RunIds :
    /\ isProcessing
    /\ InProgress(r)
    /\ runs[r].pc = "exec"
    /\ runs[r].sets = <<Pct(0), Pct(10)>>
    /\ file = NoFile
    /\ progress = Pct(0)
    /\ status = NoStatus
\* The file check of handleFileSelect rejects f.
rejected(f) == ~isSupportedMediaFile(f) \/ f.size > 500 * 1024 * 1024

\* C24: a step in which handleFileSelect rejects the file put into the input
\* sets the error and leaves the selected file, the status, the progress, the
\* segment length, the run flag and the virtual filesystem unchanged; and a run
\* that starts processes the selected file, which after a rejection is the
\* file accepted earlier and not the one in the input.
C24_RejectedSelection ==
  [][/\ inputValue' \notin {inputValue, NoFile} /\ rejected(inputValue')
          => /\ error' \in {ErrUnsupported, ErrTooLarge}
             /\ file' = file /\ status' = status /\ progress' = progress
             /\ segmentLength' = segmentLength
             /\ isProcessing' = isProcessing /\ fs' = fs
     /\ started' = started + 1
          => /\ file # NoFile /\ ~rejected(file)
             /\ runs'[started'].file = file
             /\ file' = file]_vars

\* The file of an unsupported format was picked after 'a b.mov' had been
\* accepted, and the run started next is processing 'a b.mov'.
C24_Witness ==
  \E r \in RunIds :
    /\ InProgress(r)
    /\ runs[r].file = Clip
    /\ file = Clip
    /\ inputValue = Notes
    /\ rejected(Notes)
====
